---- MODULE Spec2Model ----
(***************************************************************************)
(* Model of create_ppt.py: a straight-line batch script that reads the     *)
(* freshest P123 screen export, extracts a three-line metadata preamble,   *)
(* loads the tabular block into a dataframe, coerces MktCap to numbers,    *)
(* builds four slides (title, summary statistics, sector breakdown, top    *)
(* stocks table) and saves the presentation.                               *)
(*                                                                         *)
(* Text is a sequence of one-character strings.  Numbers are exact         *)
(* rationals <<n, d>> in lowest terms (d > 0); the float NaN / a missing   *)
(* pandas value is NaN.  An optional Python value is None or Some(v).      *)
(***************************************************************************)
EXTENDS Integers, Sequences, FiniteSets, TLC

VARIABLES pc, lines, table, metadata, df, prs,
          total_stocks, avg_mktcap, median_mktcap, total_mktcap, num_sectors,
          sector_counts, sector_text, top_stocks, saved, err

vars == <<pc, lines, table, metadata, df, prs,
          total_stocks, avg_mktcap, median_mktcap, total_mktcap, num_sectors,
          sector_counts, sector_text, top_stocks, saved, err>>

(***************************************************************************)
(* Bounds of the model                                                     *)
(***************************************************************************)
MaxLineLen == 4
MaxCellLen == 3
MaxRows == 3

(***************************************************************************)
(* Values                                                                  *)
(***************************************************************************)
None == << >>
Some(v) == << v >>
NaN == << "NaN" >>

(***************************************************************************)
(* Text helpers: str.split(","), str.strip(), str.replace(",", "")         *)
(***************************************************************************)
Whitespace == {" ", "\t"}

RECURSIVE SplitFrom(_, _, _)
SplitFrom(line, sep, cur) ==
    IF line = << >> THEN << cur >>
    ELSE IF Head(line) = sep
         THEN << cur >> \o SplitFrom(Tail(line), sep, << >>)
         ELSE SplitFrom(Tail(line), sep, Append(cur, Head(line)))

Split(line, sep) == SplitFrom(line, sep, << >>)

RECURSIVE LStrip(_)
LStrip(s) ==
    IF s # << >> /\ Head(s) \in Whitespace THEN LStrip(Tail(s)) ELSE s

RECURSIVE RStrip(_)
RStrip(s) ==
    IF s # << >> /\ s[Len(s)] \in Whitespace
    THEN RStrip(SubSeq(s, 1, Len(s) - 1)) ELSE s

\* a strip that forgets the right-hand side
StripLeftOnly(s) == LStrip(s)

Strip(s) == RStrip(LStrip(s))

(***************************************************************************)
(* clean_metadata_line and the metadata dict                               *)
(***************************************************************************)
RECURSIVE FirstNonEmpty(_)
FirstNonEmpty(parts) ==
    IF parts = << >> THEN None
    ELSE IF Head(parts) # << >> THEN Some(Head(parts))
    ELSE FirstNonEmpty(Tail(parts))

clean_metadata_line(line) ==
    LET toks == Split(line, ",")
        parts == [i \in 1..Len(toks) |-> Strip(toks[i])]
    IN FirstNonEmpty(parts)

MetadataOf(ls) ==
    [title |-> IF Len(ls) > 0 THEN clean_metadata_line(ls[1]) ELSE None,
     date  |-> IF Len(ls) > 1 THEN clean_metadata_line(ls[2]) ELSE None,
     notes |-> IF Len(ls) > 2 THEN clean_metadata_line(ls[3]) ELSE None]

(***************************************************************************)
(* Exact rationals <<n, d>>, d > 0, in lowest terms                        *)
(***************************************************************************)
Abs(n) == IF n < 0 THEN -n ELSE n

RECURSIVE GCD(_, _)
GCD(a, b) == IF b = 0 THEN a ELSE GCD(b, a % b)

Rat(n, d) ==
    LET g == GCD(Abs(n), d) IN << n \div g, d \div g >>

RatAdd(a, b) == Rat(a[1] * b[2] + b[1] * a[2], a[2] * b[2])
RatDivInt(a, k) == Rat(a[1], a[2] * k)
RatMulInt(a, k) == Rat(a[1] * k, a[2])
RatLess(a, b) == a[1] * b[2] < b[1] * a[2]
RatLeq(a, b) == a[1] * b[2] <= b[1] * a[2]

(***************************************************************************)
(* pd.read_csv cell conversion, Series.astype(str), Series.str.replace,    *)
(* pd.to_numeric(errors='coerce')                                          *)
(***************************************************************************)
Digits == {"0", "1", "2", "3", "4", "5", "6", "7", "8", "9"}

DigitVal(c) ==
    CASE c = "0" -> 0 [] c = "1" -> 1 [] c = "2" -> 2 [] c = "3" -> 3
      [] c = "4" -> 4 [] c = "5" -> 5 [] c = "6" -> 6 [] c = "7" -> 7
      [] c = "8" -> 8 [] c = "9" -> 9

\* the default NA strings of pd.read_csv
NaValues ==
    { << >>, <<"n", "/", "a">>, <<"n", "a", "n">>, <<"N", "a", "N">>,
      <<"N", "A">>, <<"N", "/", "A">>, <<"#", "N", "/", "A">>, <<"#", "N", "A">>,
      <<"<", "N", "A", ">">>, <<"n", "u", "l", "l">>, <<"N", "U", "L", "L">>,
      <<"N", "o", "n", "e">>, <<"-", "n", "a", "n">>, <<"-", "N", "a", "N">> }

ReadCsvCell(raw) == IF raw \in NaValues THEN NaN ELSE raw

AsTypeStr(v) == IF v = NaN THEN <<"n", "a", "n">> ELSE v

\* a replace that removes the first occurrence only
RECURSIVE ReplaceFirstOnly(_, _)
ReplaceFirstOnly(s, old) ==
    IF s = << >> THEN << >>
    ELSE IF Head(s) = old THEN Tail(s)
    ELSE << Head(s) >> \o ReplaceFirstOnly(Tail(s), old)

RECURSIVE Replace(_, _)
Replace(s, old) ==
    IF s = << >> THEN << >>
    ELSE IF Head(s) = old THEN Replace(Tail(s), old)
    ELSE << Head(s) >> \o Replace(Tail(s), old)

RECURSIVE Pow10(_)
Pow10(k) == IF k = 0 THEN 1 ELSE 10 * Pow10(k - 1)

RECURSIVE DigitsValue(_)
DigitsValue(s) ==
    IF s = << >> THEN 0
    ELSE 10 * DigitsValue(SubSeq(s, 1, Len(s) - 1)) + DigitVal(s[Len(s)])

\* the decimal literals the float parser accepts: digits with at most one
\* point and at least one digit ("12", "1.", ".5", "12.5")
IsDecimal(s) ==
    /\ \A i \in 1..Len(s) : s[i] \in Digits \cup {"."}
    /\ Cardinality({i \in 1..Len(s) : s[i] = "."}) <= 1
    /\ \E i \in 1..Len(s) : s[i] \in Digits

ParseFloat(s) ==
    LET dots == {i \in 1..Len(s) : s[i] = "."}
        p == IF dots = {} THEN Len(s) + 1 ELSE CHOOSE i \in dots : TRUE
        ip == SubSeq(s, 1, p - 1)
        fp == SubSeq(s, p + 1, Len(s))
    IN Rat(DigitsValue(ip) * Pow10(Len(fp)) + DigitsValue(fp), Pow10(Len(fp)))

ToNumericCoerce(s) == IF IsDecimal(s) THEN ParseFloat(s) ELSE NaN

\* line 37 on one cell of the MktCap column
CoerceMktCap(v) == ToNumericCoerce(Replace(AsTypeStr(v), ","))

(***************************************************************************)
(* Series / DataFrame operations used by the script                        *)
(***************************************************************************)
Min(a, b) == IF a < b THEN a ELSE b

Column(rows, c) == [i \in 1..Len(rows) |-> rows[i][c]]

NotNa(v) == v # NaN

\* positions of the non-missing / missing values, in index order
DropNa(col) == SelectSeq([i \in 1..Len(col) |-> i], LAMBDA i : NotNa(col[i]))
NanIndex(col) == SelectSeq([i \in 1..Len(col) |-> i], LAMBDA i : ~NotNa(col[i]))

RECURSIVE SumOver(_, _)
SumOver(idx, col) ==
    IF idx = << >> THEN << 0, 1 >>
    ELSE RatAdd(col[Head(idx)], SumOver(Tail(idx), col))

\* Series.sum(): missing values are skipped, the empty sum is 0
SeriesSum(col) == SumOver(DropNa(col), col)

\* a mean that counts a missing value as zero
SeriesMeanNullAsZero(col) ==
    IF col = << >> THEN NaN ELSE RatDivInt(SumOver(DropNa(col), col), Len(col))

\* Series.mean(): missing values are skipped, NaN when nothing is left
SeriesMean(col) ==
    LET idx == DropNa(col)
    IN IF idx = << >> THEN NaN ELSE RatDivInt(SumOver(idx, col), Len(idx))

\* descending order of the positions idx by their value in col; positions of
\* equal value keep their order (mergesort in nlargest; sort_values reverses,
\* sorts ascending and reverses back, which keeps ties in index order)
RECURSIVE InsertDesc(_, _, _)
InsertDesc(sorted, i, col) ==
    IF sorted = << >> THEN << i >>
    ELSE IF RatLess(col[Head(sorted)], col[i]) THEN << i >> \o sorted
    ELSE << Head(sorted) >> \o InsertDesc(Tail(sorted), i, col)

RECURSIVE ArgsortDesc(_, _)
ArgsortDesc(idx, col) ==
    IF idx = << >> THEN << >>
    ELSE InsertDesc(ArgsortDesc(SubSeq(idx, 1, Len(idx) - 1), col),
                    idx[Len(idx)], col)

\* a median that takes the lower of the two middle values
SeriesMedianLowerMiddle(col) ==
    LET srt == ArgsortDesc(DropNa(col), col)
        n == Len(srt)
    IN IF n = 0 THEN NaN ELSE col[srt[n \div 2 + 1]]

\* Series.median(): missing values are skipped, midpoint of the two middle
\* values for an even count, NaN when nothing is left
SeriesMedian(col) ==
    LET srt == ArgsortDesc(DropNa(col), col)
        n == Len(srt)
    IN IF n = 0 THEN NaN
       ELSE IF n % 2 = 1 THEN col[srt[(n + 1) \div 2]]
       ELSE RatDivInt(RatAdd(col[srt[n \div 2]], col[srt[n \div 2 + 1]]), 2)

\* nunique(dropna=False): the missing value is one more category
SeriesNuniqueKeepNa(col) == Cardinality({col[i] : i \in 1..Len(col)})

\* Series.nunique(): dropna=True
SeriesNunique(col) ==
    Cardinality({col[i] : i \in {j \in 1..Len(col) : NotNa(col[j])}})

\* the distinct non-missing values of col in first-seen order (the order in
\* which the hash table behind value_counts() yields its keys)
RECURSIVE Unique(_, _)
Unique(col, seen) ==
    IF col = << >> THEN << >>
    ELSE IF ~NotNa(Head(col)) \/ Head(col) \in seen
         THEN Unique(Tail(col), seen)
         ELSE << Head(col) >> \o Unique(Tail(col), seen \cup {Head(col)})

CountOf(col, v) == Cardinality({i \in 1..Len(col) : col[i] = v})

\* Series.value_counts(): dropna=True, sort=True, ascending=False; a
\* sequence of <<value, count>>
ValueCounts(col) ==
    LET keys == Unique(col, {})
        counts == [k \in 1..Len(keys) |-> << CountOf(col, keys[k]), 1 >>]
        order == ArgsortDesc([k \in 1..Len(keys) |-> k], counts)
    IN [k \in 1..Len(order) |-> << keys[order[k]], counts[order[k]][1] >>]

\* Series.sort_values(ascending=False): na_position='last'
SortValuesDesc(col) == ArgsortDesc(DropNa(col), col) \o NanIndex(col)

Head_n(s, n) == SubSeq(s, 1, Min(n, Len(s)))

\* Series.nlargest(n, keep='first'): the positions selected, in result order.
\* n >= len(col) takes sort_values(ascending=False).head(n); otherwise the n
\* largest of the non-missing values are followed by the missing ones
\* (concat([dropped.iloc[inds], nan_index]).iloc[:n])
SeriesNLargest(col, n) ==
    IF n <= 0 THEN << >>
    ELSE IF n >= Len(col) THEN Head_n(SortValuesDesc(col), n)
    ELSE LET dropped == DropNa(col)
             inds == Head_n(ArgsortDesc(dropped, col), Min(n, Len(dropped)))
         IN Head_n(inds \o NanIndex(col), n)

\* DataFrame.nlargest(n, 'MktCap'): the rows taken at the selected positions
nlargest(rows, n) ==
    LET sel == SeriesNLargest(Column(rows, "MktCap"), n)
    IN [k \in 1..Len(sel) |-> rows[sel[k]]]

\* f"{x:.kf}": x rounded to k decimals (ties to even), "nan" for NaN
RoundTo(x, k) ==
    IF x = NaN THEN NaN
    ELSE LET n == x[1] * Pow10(k)
             q == n \div x[2]
             r == n % x[2]
             up == 2 * r > x[2] \/ (2 * r = x[2] /\ q % 2 = 1)
         IN Rat(IF up THEN q + 1 ELSE q, Pow10(k))

\* str(v) of a dataframe cell
StrOf(v) == IF v = NaN THEN <<"n", "a", "n">> ELSE v

Truncate(s, n) == SubSeq(s, 1, Min(n, Len(s)))

(***************************************************************************)
(* The script.  lines holds the first (at most three) lines of the file,   *)
(* table the tabular block that follows them as the CSV tokenizer of       *)
(* read_csv(skiprows=3) sees it: None when the file ends before a header   *)
(* row, else the header (a set of column names) and the raw rows.          *)
(***************************************************************************)
Unset == << >>

TopK == 15
MaxNameLen == 40

RequiredColumns == {"Ticker", "Name", "MktCap", "SectorCode"}
UnnamedColumns == {"Unnamed: 4"}

\* df.columns.str.startswith("Unnamed")
StartsWithUnnamed(c) == c \in UnnamedColumns

statsVars == <<total_stocks, avg_mktcap, median_mktcap, total_mktcap, num_sectors>>
inputVars == <<lines, table>>

Abort(e) == pc' = "aborted" /\ err' = e

\* lines 16-30
ReadMetadata ==
    /\ pc = "read_metadata"
    /\ metadata' = MetadataOf(lines)
    /\ pc' = "load"
    /\ UNCHANGED <<inputVars, df, prs, statsVars, sector_counts, sector_text,
                   top_stocks, saved, err>>

\* lines 33-37.  read_csv raises EmptyDataError when nothing follows the
\* three skipped lines; a block with a header and no rows loads as an empty
\* frame; df['MktCap'] raises KeyError when the column is missing
LoadDataframe ==
    /\ pc = "load"
    /\ IF table = None
       THEN Abort("EmptyDataError") /\ UNCHANGED df
       ELSE LET tb == table[1]
                parsed == [i \in 1..Len(tb.rows) |->
                             [c \in tb.header |-> ReadCsvCell(tb.rows[i][c])]]
                cols == {c \in tb.header : ~StartsWithUnnamed(c)}
                kept == [i \in 1..Len(parsed) |-> [c \in cols |-> parsed[i][c]]]
            IN IF "MktCap" \notin cols
               THEN Abort("KeyError") /\ UNCHANGED df
               ELSE /\ df' = [columns |-> cols,
                              rows |-> [i \in 1..Len(kept) |->
                                  [kept[i] EXCEPT !["MktCap"] = CoerceMktCap(@)]]]
                    /\ pc' = "title_slide"
                    /\ UNCHANGED err
    /\ UNCHANGED <<inputVars, metadata, prs, statsVars, sector_counts,
                   sector_text, top_stocks, saved>>

\* a slide of prs; complete tells whether the script got to the end of the
\* statements that build it
Slide(kind, heading, body, complete) ==
    [kind |-> kind, heading |-> heading, body |-> body, complete |-> complete]

\* lines 40-63.  The TextFrame.text setter needs a str: assigning None on
\* line 53 raises, after the slide and its text box were added; the f-string
\* on line 61 renders a None date as "None"
TitleSlide ==
    /\ pc = "title_slide"
    /\ IF metadata.title = None
       THEN /\ prs' = << Slide("TitleSection", Unset, << >>, FALSE) >>
            /\ Abort("TypeError")
       ELSE /\ prs' = << Slide("TitleSection", metadata.title[1],
                               << IF metadata.date = None
                                  THEN <<"N", "o", "n", "e">>
                                  ELSE metadata.date[1] >>, TRUE) >>
            /\ pc' = "summary_slide"
            /\ UNCHANGED err
    /\ UNCHANGED <<inputVars, metadata, df, statsVars, sector_counts,
                   sector_text, top_stocks, saved>>

\* lines 66-98.  df['SectorCode'] on line 78 raises KeyError when the column
\* is missing, after lines 74-77 ran
SummarySlide ==
    /\ pc = "summary_slide"
    /\ total_stocks' = Len(df.rows)
    /\ avg_mktcap' = SeriesMean(Column(df.rows, "MktCap"))
    /\ median_mktcap' = SeriesMedian(Column(df.rows, "MktCap"))
    /\ total_mktcap' = SeriesSum(Column(df.rows, "MktCap"))
    /\ IF "SectorCode" \notin df.columns
       THEN /\ prs' = Append(prs, Slide("SummarySection", "Universe Summary Statistics", << >>, FALSE))
            /\ Abort("KeyError")
            /\ UNCHANGED num_sectors
       ELSE /\ num_sectors' = SeriesNunique(Column(df.rows, "SectorCode"))
            /\ prs' = Append(prs, Slide("SummarySection", "Universe Summary Statistics",
                      << total_stocks', RoundTo(total_mktcap', 2), RoundTo(avg_mktcap', 2),
                         RoundTo(median_mktcap', 2), num_sectors' >>, TRUE))
            /\ pc' = "sector_slide"
            /\ UNCHANGED err
    /\ UNCHANGED <<inputVars, metadata, df, sector_counts, sector_text,
                   top_stocks, saved>>

\* lines 101-119
SectorSlide ==
    /\ pc = "sector_slide"
    /\ sector_counts' = ValueCounts(Column(df.rows, "SectorCode"))
    /\ sector_text' = [k \in 1..Len(sector_counts') |->
           [sector |-> sector_counts'[k][1],
            count |-> sector_counts'[k][2],
            pct |-> RatMulInt(Rat(sector_counts'[k][2], total_stocks), 100),
            shown |-> RoundTo(RatMulInt(Rat(sector_counts'[k][2], total_stocks), 100), 1)]]
    /\ prs' = Append(prs, Slide("BreakdownSection", "Sector Breakdown", sector_text', TRUE))
    /\ pc' = "table_slide"
    /\ UNCHANGED <<inputVars, metadata, df, statsVars, top_stocks, saved, err>>

\* a table step that reindexes: a missing column is filled with NaN
TableSlideReindex ==
    /\ pc = "table_slide"
    /\ LET filled == [i \in 1..Len(df.rows) |->
                        [c \in RequiredColumns |->
                            IF c \in df.columns THEN df.rows[i][c] ELSE NaN]]
       IN top_stocks' = nlargest(filled, TopK)
    /\ prs' = Append(prs, Slide("TableSection", "Top 15 Stocks by Market Cap",
           [k \in 1..Len(top_stocks') |->
              << StrOf(top_stocks'[k]["Ticker"]),
                 Truncate(StrOf(top_stocks'[k]["Name"]), MaxNameLen),
                 RoundTo(top_stocks'[k]["MktCap"], 2),
                 StrOf(top_stocks'[k]["SectorCode"]) >>], TRUE))
    /\ pc' = "save"
    /\ UNCHANGED <<inputVars, metadata, df, statsVars, sector_counts,
                   sector_text, saved, err>>

\* lines 122-168.  The column selection on line 130 raises KeyError when
\* Ticker or Name is missing
TableSlide ==
    /\ pc = "table_slide"
    /\ IF ~({"Ticker", "Name", "MktCap", "SectorCode"} \subseteq df.columns)
       THEN /\ prs' = Append(prs, Slide("TableSection", "Top 15 Stocks by Market Cap", << >>, FALSE))
            /\ Abort("KeyError")
            /\ UNCHANGED top_stocks
       ELSE /\ top_stocks' = nlargest(df.rows, TopK)
            /\ prs' = Append(prs, Slide("TableSection", "Top 15 Stocks by Market Cap",
                   [k \in 1..Len(top_stocks') |->
                      << StrOf(top_stocks'[k]["Ticker"]),
                         Truncate(StrOf(top_stocks'[k]["Name"]), MaxNameLen),
                         RoundTo(top_stocks'[k]["MktCap"], 2),
                         StrOf(top_stocks'[k]["SectorCode"]) >>], TRUE))
            /\ pc' = "save"
            /\ UNCHANGED err
    /\ UNCHANGED <<inputVars, metadata, df, statsVars, sector_counts,
                   sector_text, saved>>

\* lines 171-173
Save ==
    /\ pc = "save"
    /\ saved' = TRUE
    /\ pc' = "done"
    /\ UNCHANGED <<inputVars, metadata, df, prs, statsVars, sector_counts,
                   sector_text, top_stocks, err>>

Next ==
    \/ ReadMetadata
    \/ LoadDataframe
    \/ TitleSlide
    \/ SummarySlide
    \/ SectorSlide
    \/ TableSlide
    \/ Save

(***************************************************************************)
(* Input files                                                             *)
(***************************************************************************)
SeqsUpTo(S, n) == UNION {[1..k -> S] : k \in 0..n}

DigitChar == <<"1", "2", "3", "4", "5", "6", "7", "8", "9">>

\* the raw row at position i of a block with header hdr
RawRow(i, cell, sector, hdr) ==
    [c \in hdr |->
        CASE c = "Ticker" -> <<"T", DigitChar[i]>>
          [] c = "Name" -> <<"N", DigitChar[i]>>
          [] c = "MktCap" -> cell
          [] c = "SectorCode" -> sector
          [] OTHER -> << >>]

RawRows(data, hdr) ==
    [i \in 1..Len(data) |-> RawRow(i, data[i][1], data[i][2], hdr)]

FullHeader == RequiredColumns \cup UnnamedColumns

Headers ==
    {RequiredColumns, FullHeader} \cup {FullHeader \ {c} : c \in RequiredColumns}

GoodTitle == <<" ", ",", "Q", "3", ",">>
GoodDate == <<"1", "/", "2">>
BlankLine == <<",", " ", ",">>

Preambles ==
    {<<t, d, BlankLine>> : t \in {GoodTitle, BlankLine}, d \in {GoodDate, BlankLine}}

Cells == {<<"1", "0", "0">>, <<"3", "0", "0">>, << >>}
Sectors == {<<"A">>, <<"B">>, << >>}

E2EData ==
    << <<<<"1", "0", "0">>, <<"A">>>>, <<<< >>, <<"B">>>>,
       <<<<"3", "0", "0">>, <<"A">>>>, <<<<"2", "0", "0">>, <<"A">>>>,
       <<<<"5", "0">>, <<"B">>>> >>

Datasets == SeqsUpTo(Cells \X Sectors, MaxRows) \cup {E2EData}

InitLocals ==
    /\ metadata = Unset
    /\ df = Unset
    /\ prs = Unset
    /\ total_stocks = Unset
    /\ avg_mktcap = Unset
    /\ median_mktcap = Unset
    /\ total_mktcap = Unset
    /\ num_sectors = Unset
    /\ sector_counts = Unset
    /\ sector_text = Unset
    /\ top_stocks = Unset
    /\ saved = FALSE
    /\ err = "none"

Init ==
    /\ pc = "read_metadata"
    /\ \/ /\ lines \in Preambles
          /\ \E hdr \in Headers, data \in Datasets :
                table = Some([header |-> hdr, rows |-> RawRows(data, hdr)])
       \/ /\ lines \in {SubSeq(p, 1, k) : p \in Preambles, k \in 0..3}
          /\ table = None
    /\ InitLocals

Spec == Init /\ [][Next]_vars

\* every line over a small alphabet, in each of the three preamble positions
LineAlphabet == {",", " ", "Q", "3"}

ExampleLine ==
    <<" ", ",", " ", ",", " ", "Q", "3", " ", "R", "e", "p", "o", "r", "t", " ",
      ",", " ">>

InitMeta ==
    /\ pc = "read_metadata"
    /\ \E l \in SeqsUpTo(LineAlphabet, MaxLineLen) \cup {ExampleLine} :
          lines \in {<< >>, <<l>>, <<GoodTitle, l>>, <<GoodTitle, GoodDate, l>>}
    /\ table = None
    /\ InitLocals

SpecMeta == InitMeta /\ [][ReadMetadata]_vars

\* a MktCap column of two cells: every cell over a small alphabet and the
\* documented examples, next to a cell that parses, fails or is empty
CellAlphabet == {"1", "5", ",", ".", "n"}

ExampleCells ==
    { <<"1", "2", ",", "3", "4", "5", ".", "6">>, <<"n", "/", "a">>, << >> }

InitCoerce ==
    /\ pc = "load"
    /\ lines = <<GoodTitle, GoodDate, BlankLine>>
    /\ metadata = MetadataOf(lines)
    /\ \E c1 \in SeqsUpTo(CellAlphabet, MaxCellLen) \cup ExampleCells,
          c2 \in {<<"7">>, <<"n", "/", "a">>, <<"x">>} :
          table = Some([header |-> FullHeader,
                        rows |-> RawRows(<< <<c1, <<"A">>>>, <<c2, <<"B">>>> >>,
                                         FullHeader)])
    /\ df = Unset
    /\ prs = Unset
    /\ total_stocks = Unset
    /\ avg_mktcap = Unset
    /\ median_mktcap = Unset
    /\ total_mktcap = Unset
    /\ num_sectors = Unset
    /\ sector_counts = Unset
    /\ sector_text = Unset
    /\ top_stocks = Unset
    /\ saved = FALSE
    /\ err = "none"

SpecCoerce == InitCoerce /\ [][LoadDataframe]_vars

(***************************************************************************)
(* Properties                                                              *)
(***************************************************************************)
Loaded == pc \in {"title_slide", "summary_slide", "sector_slide", "table_slide",
                  "save", "done"}
StatsDone == pc \in {"sector_slide", "table_slide", "save", "done"}
BreakdownDone == pc \in {"table_slide", "save", "done"}
TableDone == pc \in {"save", "done"}

RawData ==
    [i \in 1..Len(table[1].rows) |->
        << table[1].rows[i]["MktCap"], table[1].rows[i]["SectorCode"] >>]

MktCaps == Column(df.rows, "MktCap")
SectorCodes == Column(df.rows, "SectorCode")

\* ---- C10 ----
CommaPos(l) == {i \in 1..Len(l) : l[i] = ","}
TokenStarts(l) == {0} \cup CommaPos(l)
TokenEnd(l, s) ==
    CHOOSE e \in CommaPos(l) \cup {Len(l) + 1} :
        e > s /\ \A f \in CommaPos(l) : f > s => e <= f
TokenAt(l, s) == SubSeq(l, s + 1, TokenEnd(l, s) - 1)
IsBlank(t) == \A i \in 1..Len(t) : t[i] \in Whitespace
Trimmed(t) ==
    LET ink == {i \in 1..Len(t) : t[i] \notin Whitespace}
        lo == CHOOSE i \in ink : \A j \in ink : i <= j
        hi == CHOOSE i \in ink : \A j \in ink : i >= j
    IN SubSeq(t, lo, hi)
FirstToken(l) ==
    LET good == {s \in TokenStarts(l) : ~IsBlank(TokenAt(l, s))}
    IN IF good = {} THEN None
       ELSE Some(Trimmed(TokenAt(l, CHOOSE s \in good : \A u \in good : s <= u)))

FieldOf(k) == IF k = 1 THEN metadata.title ELSE IF k = 2 THEN metadata.date ELSE metadata.notes

\* C10: once the metadata is read, each of title, date and notes is the
\* first comma-separated token of its line that is non-empty after trimming,
\* in trimmed form; it is None exactly when the line does not exist or all
\* its tokens are blank; and no error is raised.
MetadataIsFirstNonEmptyToken ==
    pc = "load" =>
        /\ err = "none"
        /\ \A k \in 1..3 :
              /\ FieldOf(k) = IF k > Len(lines) THEN None ELSE FirstToken(lines[k])
              /\ FieldOf(k) = None <=>
                    (k > Len(lines)
                       \/ \A s \in TokenStarts(lines[k]) : IsBlank(TokenAt(lines[k], s)))
        /\ (Len(lines) >= 1 /\ lines[1] = ExampleLine) =>
              metadata.title = Some(<<"Q", "3", " ", "R", "e", "p", "o", "r", "t">>)

WitnessExampleLineParsed ==
    /\ pc = "load"
    /\ lines = <<ExampleLine>>
    /\ metadata.title = Some(<<"Q", "3", " ", "R", "e", "p", "o", "r", "t">>)
    /\ metadata.date = None

\* ---- C6 ----
WithoutCommas(raw) == SelectSeq(raw, LAMBDA c : c # ",")

\* the value of a comma-free decimal literal, digit by digit
RECURSIVE PlaceSum(_, _)
PlaceSum(t, I) ==
    IF I = {} THEN 0
    ELSE LET i == CHOOSE j \in I : TRUE
         IN DigitVal(t[i]) * Pow10(Cardinality({j \in 1..Len(t) : j > i /\ t[j] \in Digits}))
              + PlaceSum(t, I \ {i})

ExpectedMktCap(raw) ==
    LET t == WithoutCommas(raw)
        digs == {i \in 1..Len(t) : t[i] \in Digits}
        dots == {i \in 1..Len(t) : t[i] = "."}
        frac == Cardinality({i \in digs : \E d \in dots : d < i})
    IN IF digs = {} \/ Cardinality(dots) > 1 \/ digs \cup dots # 1..Len(t)
       THEN NaN
       ELSE Rat(PlaceSum(t, digs), Pow10(frac))

IsNumber(v) == Len(v) = 2 /\ v[1] \in Nat /\ v[2] \in Nat \ {0}

\* C6: loading never aborts on a MktCap cell; every cell becomes a number or
\* null, a cell that is a decimal literal once its commas are removed becomes
\* that number and any other cell becomes null, whatever the other cells of
\* the column are; "12,345.6" becomes 12345.6, "n/a" and "" become null.
CoercionIsPerCellNumericOrNull ==
    pc # "load" =>
        /\ pc = "title_slide" /\ err = "none"
        /\ Len(df.rows) = Len(table[1].rows)
        /\ \A i \in 1..Len(df.rows) :
              /\ MktCaps[i] = NaN \/ IsNumber(MktCaps[i])
              /\ MktCaps[i] = ExpectedMktCap(RawData[i][1])
              /\ RawData[i][1] = <<"1", "2", ",", "3", "4", "5", ".", "6">>
                    => MktCaps[i] = <<61728, 5>>
              /\ RawData[i][1] \in {<<"n", "/", "a">>, << >>} => MktCaps[i] = NaN

WitnessCommaCellBesideFailingCell ==
    /\ pc = "title_slide"
    /\ RawData[1][1] = <<"1", "2", ",", "3", "4", "5", ".", "6">>
    /\ RawData[2][1] = <<"x">>
    /\ MktCaps[1] = <<61728, 5>>
    /\ MktCaps[2] = NaN

\* ---- C2 ----
RECURSIVE SumSet(_, _)
SumSet(I, col) ==
    IF I = {} THEN << 0, 1 >>
    ELSE LET i == CHOOSE j \in I : TRUE
         IN RatAdd(SumSet(I \ {i}, col), col[i])

NonNullPositions(col) == {i \in 1..Len(col) : col[i] # NaN}

\* C2: the record count is the number of parsed rows, the total is the sum of
\* the non-null market caps, the average is that sum over the number of
\* non-null values, and total, average and median are what they would be with
\* one more record whose market cap is null.
NullMktCapExcludedFromStatistics ==
    StatsDone =>
        /\ total_stocks = Len(table[1].rows)
        /\ total_mktcap = SumSet(NonNullPositions(MktCaps), MktCaps)
        /\ NonNullPositions(MktCaps) # {} =>
              RatMulInt(avg_mktcap, Cardinality(NonNullPositions(MktCaps))) = total_mktcap
        /\ NonNullPositions(MktCaps) = {} => avg_mktcap = NaN /\ median_mktcap = NaN
        /\ SeriesSum(Append(MktCaps, NaN)) = total_mktcap
        /\ SeriesMean(Append(MktCaps, NaN)) = avg_mktcap
        /\ SeriesMedian(Append(MktCaps, NaN)) = median_mktcap
        /\ Len(Append(MktCaps, NaN)) = total_stocks + 1

WitnessStatisticsWithNullMktCap ==
    /\ StatsDone
    /\ \E i \in 1..Len(MktCaps) : MktCaps[i] = NaN
    /\ Cardinality(NonNullPositions(MktCaps)) = 2
    /\ avg_mktcap = << 200, 1 >>

\* ---- C1 ----
Projection(rows) ==
    [k \in 1..Len(rows) |->
        << rows[k]["Ticker"], rows[k]["MktCap"], rows[k]["SectorCode"] >>]

E2ETop3 ==
    << << <<"T", "3">>, <<300, 1>>, <<"A">> >>,
       << <<"T", "4">>, <<200, 1>>, <<"A">> >>,
       << <<"T", "1">>, <<100, 1>>, <<"A">> >> >>

\* C1: for the five records with market caps 100, null, 300, 200, 50 and
\* sectors A, B, A, A, B the run yields count 5, total 650, average 162.5,
\* median 150, 2 sectors, the breakdown A: 3 (60.0%), B: 2 (40.0%), and the
\* three largest records are those with 300, 200 and 100, in that order.
EndToEndScenario ==
    (pc = "done" /\ RawData = E2EData) =>
        /\ total_stocks = 5
        /\ total_mktcap = << 650, 1 >>
        /\ avg_mktcap = << 325, 2 >>
        /\ median_mktcap = << 150, 1 >>
        /\ num_sectors = 2
        /\ sector_counts = << << <<"A">>, 3 >>, << <<"B">>, 2 >> >>
        /\ [k \in 1..Len(sector_text) |-> sector_text[k].shown] = << <<60, 1>>, <<40, 1>> >>
        /\ Projection(nlargest(df.rows, 3)) = E2ETop3
        /\ Projection(SubSeq(top_stocks, 1, 3)) = E2ETop3
        /\ saved

WitnessEndToEndScenario ==
    /\ pc = "done"
    /\ RawData = E2EData
    /\ saved
    /\ Len(prs) = 4

\* ---- C5 ----
DistinctSectorCells == {RawData[i][2] : i \in 1..Len(RawData)}
HasNullSector == \E i \in 1..Len(RawData) : RawData[i][2] = << >>

\* C5 as stated: records with a null SectorCode together count as one more
\* distinct category in the number of sectors.
SectorCountIncludesNullCategory ==
    StatsDone =>
        num_sectors = Cardinality(DistinctSectorCells \ {<< >>})
                        + (IF HasNullSector THEN 1 ELSE 0)

\* C5 as amended: the number of sectors is the number of distinct non-null
\* SectorCode values; records with a null SectorCode are not counted.
SectorCountExcludesNullSector ==
    StatsDone => num_sectors = Cardinality(DistinctSectorCells \ {<< >>})

WitnessNullSectorNotCounted ==
    /\ StatsDone
    /\ HasNullSector
    /\ Cardinality(DistinctSectorCells \ {<< >>}) = 2
    /\ num_sectors = 2

\* ---- C3 ----
PositionOf(row) == CHOOSE i \in 1..Len(df.rows) : df.rows[i]["Ticker"] = row["Ticker"]
Selected == {PositionOf(top_stocks[k]) : k \in 1..Len(top_stocks)}

\* C3: the ranking holds exactly min(K, number of records with a non-null
\* market cap) records, none of them with a null market cap, in descending
\* order, each at least as large as every non-null record left out, and
\* records of equal market cap are selected and listed in input order.
TopKRankingExcludesNullMktCap ==
    TableDone =>
        /\ Len(top_stocks) = Min(TopK, Cardinality(NonNullPositions(MktCaps)))
        /\ \A k \in 1..Len(top_stocks) : top_stocks[k]["MktCap"] # NaN
        /\ \A k \in 1..Len(top_stocks), m \in 1..Len(top_stocks) :
              k < m => /\ RatLeq(top_stocks[m]["MktCap"], top_stocks[k]["MktCap"])
                       /\ top_stocks[m]["MktCap"] = top_stocks[k]["MktCap"]
                             => PositionOf(top_stocks[k]) < PositionOf(top_stocks[m])
        /\ \A i \in Selected, j \in NonNullPositions(MktCaps) \ Selected :
              /\ RatLeq(MktCaps[j], MktCaps[i])
              /\ MktCaps[j] = MktCaps[i] => i < j

\* ---- C4 ----
NonNullSectorCodes == {SectorCodes[i] : i \in 1..Len(SectorCodes)} \ {NaN}
FirstSeenAt(v) ==
    CHOOSE i \in 1..Len(SectorCodes) :
        SectorCodes[i] = v /\ \A j \in 1..Len(SectorCodes) : SectorCodes[j] = v => i <= j

RECURSIVE SumPct(_)
SumPct(rows) ==
    IF rows = << >> THEN << 0, 1 >> ELSE RatAdd(Head(rows).pct, SumPct(Tail(rows)))

RECURSIVE SumCount(_)
SumCount(rows) ==
    IF rows = << >> THEN 0 ELSE Head(rows).count + SumCount(Tail(rows))

BreakdownRows ==
    /\ Len(sector_text) = Cardinality(NonNullSectorCodes)
    /\ {sector_text[k].sector : k \in 1..Len(sector_text)} = NonNullSectorCodes
    /\ \A k \in 1..Len(sector_text) :
          /\ sector_text[k].count =
                Cardinality({i \in 1..Len(SectorCodes) : SectorCodes[i] = sector_text[k].sector})
          /\ sector_text[k].pct[1] * Len(table[1].rows)
                = 100 * sector_text[k].count * sector_text[k].pct[2]
    /\ \A k \in 1..Len(sector_text), m \in 1..Len(sector_text) :
          k < m => /\ sector_text[k].count >= sector_text[m].count
                   /\ sector_text[k].count = sector_text[m].count
                         => FirstSeenAt(sector_text[k].sector) < FirstSeenAt(sector_text[m].sector)

\* C4: one breakdown row per distinct SectorCode with its number of records,
\* in descending count order with ties in first-seen order, each percentage
\* 100 * count / number of records; when no record has a null SectorCode the
\* counts sum to the number of records and the percentages to 100.
SectorBreakdownSumsToWhole ==
    BreakdownDone =>
        /\ BreakdownRows
        /\ (\A i \in 1..Len(SectorCodes) : SectorCodes[i] # NaN) =>
              /\ SumCount(sector_text) = Len(table[1].rows)
              /\ SumPct(sector_text) = << 100, 1 >>

\* the same on every dataset with at least one record
SectorBreakdownOfNonEmptyDataset ==
    (BreakdownDone /\ Len(df.rows) > 0) =>
        /\ BreakdownRows
        /\ (\A i \in 1..Len(SectorCodes) : SectorCodes[i] # NaN) =>
              /\ SumCount(sector_text) = Len(table[1].rows)
              /\ SumPct(sector_text) = << 100, 1 >>

\* ---- C7 ----
MissingRequiredColumn ==
    table # None /\ ~(RequiredColumns \subseteq table[1].header)

ZeroDataRows ==
    table # None /\ RequiredColumns \subseteq table[1].header /\ table[1].rows = << >>

\* C8: a block with a valid header and no data rows makes the run abort with
\* an error; it never completes and never writes an output artifact.
ZeroDataRowsIsFatal ==
    ZeroDataRows => ~saved /\ pc \notin {"save", "done"}

\* ---- C9 ----
Unknown == <<"u", "n", "k", "n", "o", "w", "n">>

WellFormedTable ==
    table # None /\ RequiredColumns \subseteq table[1].header /\ table[1].rows # << >>

\* C9: with the title, date or notes absent the run does not abort, the title
\* section shows the placeholder "unknown" for an absent title or date, and
\* the finished run has four sections and has written the output artifact.
MissingMetadataIsRecoverable ==
    (WellFormedTable /\ pc # "read_metadata"
        /\ (metadata.title = None \/ metadata.date = None \/ metadata.notes = None)) =>
        /\ pc # "aborted"
        /\ prs # Unset =>
              /\ prs[1].heading = IF metadata.title = None THEN Unknown ELSE metadata.title[1]
              /\ prs[1].body = << IF metadata.date = None THEN Unknown ELSE metadata.date[1] >>
        /\ pc = "done" => Len(prs) = 4 /\ saved

====
